---- MODULE Spec2Model ----
(***************************************************************************)
(* A model of src/curses.h: the WINDOW data holder and the TerminalUI      *)
(* controller (initscr/endwin lifecycle, mode configuration, drawing into  *)
(* the screen buffer, refresh, getch), together with the part of the       *)
(* operating system the controller acts on: the live terminal              *)
(* configuration, the heap of WINDOW objects and the visible display.      *)
(***************************************************************************)
EXTENDS Integers, Sequences, FiniteSets, TLC

(***************************************************************************)
(* Program constants.                                                      *)
(***************************************************************************)
KEY_UP == 72
KEY_DOWN == 80
KEY_LEFT == 75
KEY_RIGHT == 77
KEY_ENTER == 13
KEY_BACKSPACE == 8
KEY_ESC == 27

DEFAULT_WIDTH == 80
DEFAULT_HEIGHT == 24

\* char buffer[1024] of mvprintw
FORMAT_BUFFER_SIZE == 1024

(***************************************************************************)
(* Bounds of the model.                                                    *)
(***************************************************************************)
\* number of calls made on one controller object
MaxCalls == 3

(***************************************************************************)
(* Values.                                                                 *)
(***************************************************************************)
NULL == 0
SPACE == " "
NUL == "NUL"
LINE_BREAK == "\n"

Platforms == {"posix", "win32"}

\* A terminal configuration: the termios fields the code touches (c_lflag,
\* c_cc[VMIN], c_cc[VTIME]) or, on win32, the console mode word (vmin and
\* vtime stay 0 there).
\* The configuration a shell hands to the program.
CookedPosix == [flags |-> {"ICANON", "ECHO", "ISIG"}, vmin |-> 1, vtime |-> 0]
CookedWin == [flags |-> {"ENABLE_LINE_INPUT", "ENABLE_ECHO_INPUT", "ENABLE_PROCESSED_INPUT"},
              vmin |-> 0, vtime |-> 0]

InitialConfigs(p) == IF p = "posix" THEN {CookedPosix} ELSE {CookedWin}

\* The member old_termios / old_console_mode before anything is stored in it.
Indeterminate == [flags |-> {"INDETERMINATE"}, vmin |-> 0, vtime |-> 0]

\* What the display shows before the program has written anything.
PriorContent == <<"$">>

VARIABLES
    platform,        \* which branch of the #ifdef _WIN32 the build took
    term,            \* the live terminal configuration (the OS's)
    display,         \* what the terminal shows since its last clear
    heap,            \* the WINDOW objects allocated with new and not deleted
    nalloc,          \* number of WINDOW objects ever allocated
    alive,           \* the TerminalUI object has not been destroyed
    current_window,  \* TerminalUI::current_window (NULL or a heap address)
    is_initialized,  \* TerminalUI::is_initialized
    echo_mode,       \* TerminalUI::echo_mode
    nodelay_mode,    \* TerminalUI::nodelay_mode
    cursor_visible,  \* TerminalUI::cursor_visible
    old_termios,     \* TerminalUI::old_termios / old_console_mode
    handle,          \* the caller's copy of the WINDOW* initscr returned last
    cfgAtStart,      \* history: term just before the last initscr changed it
    lastCall,        \* history: the last call, its arguments and its result
    ncalls           \* history: number of calls made so far

ctrlFlags == <<is_initialized, echo_mode, nodelay_mode, cursor_visible>>
progVars == <<term, display, heap, nalloc, current_window, is_initialized,
              echo_mode, nodelay_mode, cursor_visible, old_termios>>
vars == <<platform, term, display, heap, nalloc, alive, current_window,
          is_initialized, echo_mode, nodelay_mode, cursor_visible, old_termios,
          handle, cfgAtStart, lastCall, ncalls>>

(***************************************************************************)
(* WINDOW                                                                  *)
(***************************************************************************)
\* WINDOW(h, w, y, x): buffer.resize(height, vector<char>(width, ' '))
WINDOW(h, w, y, x) ==
    [height |-> h, width |-> w, start_y |-> y, start_x |-> x,
     buffer |-> [r \in 1..h |-> [c \in 1..w |-> SPACE]]]

\* buffer[y][x] = ch, with the code's 0-based indices
Store(win, y, x, ch) ==
    [win EXCEPT !.buffer[y + 1][x + 1] = ch]

(***************************************************************************)
(* Terminal modes                                                          *)
(***************************************************************************)
\* The configuration setup_terminal and getch write: on posix c_lflag without
\* ICANON and ECHO, VMIN = VTIME = 0; on win32 the mode without line input,
\* echo input and processed input, with mouse input.
RawOf(p, cfg) ==
    IF p = "posix"
    THEN [flags |-> cfg.flags \ {"ICANON", "ECHO"}, vmin |-> 0, vtime |-> 0]
    ELSE [cfg EXCEPT !.flags = (cfg.flags \ {"ENABLE_LINE_INPUT", "ENABLE_ECHO_INPUT",
                                             "ENABLE_PROCESSED_INPUT"})
                               \cup {"ENABLE_MOUSE_INPUT"}]

\* setup_terminal(): read the live configuration into old_termios, then write
\* the raw one.
setup_terminal ==
    /\ old_termios' = term
    /\ term' = RawOf(platform, term)

\* restore_terminal(): write old_termios back.
restore_terminal ==
    term' = old_termios

(***************************************************************************)
(* Screen size                                                             *)
(***************************************************************************)
\* What the platform query leaves in the winsize / CONSOLE_SCREEN_BUFFER_INFO
\* structure: on success the terminal's size (an axis may be reported as 0, on
\* win32 the difference of two coordinates may be negative); on failure the
\* structure is not written and the code reads it uninitialized, so rows and
\* cols are then whatever the stack held.
RowValues(p) == IF p = "posix" THEN {0, 2} ELSE {-1, 2}
ColValues(p) == {0, 3}
QueryResults(p) ==
    { q \in [ok : {TRUE}, rows : RowValues(p), cols : ColValues(p)] :
        q.rows > 0 \/ q.cols > 0 }
    \cup {[ok |-> FALSE, rows |-> 0, cols |-> 0], [ok |-> FALSE, rows |-> 2, cols |-> 3]}

\* detect_screen_size(height, width): the return value of the query is not
\* looked at; the two fallbacks are applied to what the structure holds.
detect_screen_size(q) ==
    [height |-> IF q.rows <= 0 THEN DEFAULT_HEIGHT ELSE q.rows,
     width |-> IF q.cols <= 0 THEN DEFAULT_WIDTH ELSE q.cols]

(***************************************************************************)
(* Drawing                                                                 *)
(***************************************************************************)
\* The positions (y, x) and characters the callers pass: (1, 1) is inside
\* every window; (2, 1) is at row height of a 2-row window and (1, 3) at column
\* width of a 3-column one, both inside the larger ones; (1, 78) is at column
\* width - 2 of an 80-column window; the last three are outside every window.
Points ==
    { <<1, 1>>, <<2, 1>>, <<1, 3>>, <<1, 78>>,
      <<-1, 1>>, <<1, -1>>, <<24, 80>> }
PlotChars == {"Z", "#"}

\* mvaddch with the coordinates clamped into the window instead of the call
\* being ignored when they lie outside.
mvaddch_clamped(win, y, x, ch) ==
    LET Clamp(v, hi) == IF v < 0 THEN 0 ELSE IF v >= hi THEN hi - 1 ELSE v
    IN Store(win, Clamp(y, win.height), Clamp(x, win.width), ch)

\* mvaddch(y, x, ch) on the window current_window points to
mvaddch(win, y, x, ch) ==
    IF y >= 0 /\ y < win.height /\ x >= 0 /\ x < win.width
    THEN Store(win, y, x, ch)
    ELSE win

\* A format string is a sequence of tokens: a character that is copied, or the
\* conversion "%c", which takes the next argument.
HELLO == <<"H", "E", "L", "L", "O">>
PrintInputs ==
    { [format |-> HELLO, args |-> <<>>],
      [format |-> <<"%c", "%c", "O">>, args |-> <<"E", NUL>>] }

RECURSIVE Expand(_, _)
Expand(format, args) ==
    IF format = <<>> THEN <<>>
    ELSE IF Head(format) = "%c"
         THEN <<Head(args)>> \o Expand(Tail(format), Tail(args))
         ELSE <<Head(format)>> \o Expand(Tail(format), args)

Min(a, b) == IF a <= b THEN a ELSE b

\* vsnprintf(buffer, sizeof(buffer), format, args): at most sizeof(buffer) - 1
\* characters of the expansion, then the terminating NUL.
vsnprintf(size, format, args) ==
    LET out == Expand(format, args)
    IN SubSeq(out, 1, Min(Len(out), size - 1)) \o <<NUL>>

\* std::string str(buffer): the characters before the first NUL.
RECURSIVE c_string(_)
c_string(chars) ==
    IF chars = <<>> \/ Head(chars) = NUL THEN <<>>
    ELSE <<Head(chars)>> \o c_string(Tail(chars))

\* The formatted string mvprintw copies to the screen.
Formatted(format, args) == c_string(vsnprintf(FORMAT_BUFFER_SIZE, format, args))

\* The copy loop stopping one column short of the right edge.
RECURSIVE CopyLoop_short(_, _, _, _, _)
CopyLoop_short(win, y, x, str, i) ==
    IF i < Len(str) /\ x + i < win.width - 1
    THEN CopyLoop_short(Store(win, y, x + i, str[i + 1]), y, x, str, i + 1)
    ELSE win

\* for (i = 0; i < str.length() && x + i < width; ++i) buffer[y][x + i] = str[i]
RECURSIVE CopyLoop(_, _, _, _, _)
CopyLoop(win, y, x, str, i) ==
    IF i < Len(str) /\ x + i < win.width
    THEN CopyLoop(Store(win, y, x + i, str[i + 1]), y, x, str, i + 1)
    ELSE win

\* mvprintw(y, x, format, ...) on the window current_window points to
mvprintw(win, y, x, format, args) ==
    IF y < 0 \/ y >= win.height \/ x < 0 \/ x >= win.width
    THEN win
    ELSE CopyLoop(win, y, x, Formatted(format, args), 0)

\* The rows written without the std::endl after each.
RECURSIVE RenderRows_unbroken(_)
RenderRows_unbroken(rows) ==
    IF rows = <<>> THEN <<>>
    ELSE Head(rows) \o RenderRows_unbroken(Tail(rows))

\* refresh(): for each row, each character, then std::endl
RECURSIVE RenderRows(_)
RenderRows(rows) ==
    IF rows = <<>> THEN <<>>
    ELSE Head(rows) \o <<LINE_BREAK>> \o RenderRows(Tail(rows))

Render(win) == RenderRows(win.buffer)

(***************************************************************************)
(* Input                                                                   *)
(***************************************************************************)
KeyEvent(down, vk, ascii) ==
    [EventType |-> "KEY_EVENT", bKeyDown |-> down, wVirtualKeyCode |-> vk,
     AsciiChar |-> ascii]

\* The INPUT_RECORDs ReadConsoleInput delivers: arrow keys and control keys
\* (AsciiChar as the console reports it), a letter key, a key held for no
\* character, a key release and a mouse event.
ConsoleEvents ==
    { KeyEvent(TRUE, "VK_UP", 0), KeyEvent(TRUE, "VK_DOWN", 0),
      KeyEvent(TRUE, "VK_LEFT", 0), KeyEvent(TRUE, "VK_RIGHT", 0),
      KeyEvent(TRUE, "VK_RETURN", 13), KeyEvent(TRUE, "VK_BACK", 8),
      KeyEvent(TRUE, "VK_ESCAPE", 27),
      KeyEvent(TRUE, "VK_H", 72),
      KeyEvent(TRUE, "VK_SHIFT", 0), KeyEvent(FALSE, "VK_UP", 0),
      [EventType |-> "MOUSE_EVENT", bKeyDown |-> FALSE, wVirtualKeyCode |-> "NONE",
       AsciiChar |-> 0] }

\* The runs of events one call of windows_getch reads: one event, or an
\* event the loop skips followed by one more.
SkippedEvents ==
    {e \in ConsoleEvents : e.EventType # "KEY_EVENT" \/ ~e.bKeyDown
                              \/ e.wVirtualKeyCode = "VK_SHIFT"}
EventRuns ==
    {<<e>> : e \in ConsoleEvents}
    \cup {<<e1, e2>> : e1 \in SkippedEvents, e2 \in {KeyEvent(TRUE, "VK_H", 72)}}

\* The switch of windows_getch on the virtual key code.
SpecialKey(vk) ==
    CASE vk = "VK_UP" -> KEY_UP
      [] vk = "VK_DOWN" -> KEY_DOWN
      [] vk = "VK_LEFT" -> KEY_LEFT
      [] vk = "VK_RIGHT" -> KEY_RIGHT
      [] vk = "VK_RETURN" -> KEY_ENTER
      [] vk = "VK_BACK" -> KEY_BACKSPACE
      [] vk = "VK_ESCAPE" -> KEY_ESC
      [] OTHER -> NULL

IsSpecial(vk) ==
    vk \in {"VK_UP", "VK_DOWN", "VK_LEFT", "VK_RIGHT", "VK_RETURN", "VK_BACK", "VK_ESCAPE"}

\* windows_getch(): the loop over the events read, up to the first key-down
\* event that is a special key or carries a character. returned = FALSE when the
\* events run out first (the call is then still waiting).
RECURSIVE windows_getch(_)
windows_getch(events) ==
    IF events = <<>> THEN [returned |-> FALSE, value |-> 0]
    ELSE LET e == Head(events)
         IN IF e.EventType = "KEY_EVENT" /\ e.bKeyDown
            THEN IF IsSpecial(e.wVirtualKeyCode)
                 THEN [returned |-> TRUE, value |-> SpecialKey(e.wVirtualKeyCode)]
                 ELSE IF e.AsciiChar # 0
                      THEN [returned |-> TRUE, value |-> e.AsciiChar]
                      ELSE windows_getch(Tail(events))
            ELSE windows_getch(Tail(events))

\* What read(STDIN_FILENO, &ch, 1) finds: one byte, or nothing (VMIN = 0 makes
\* it return at once); and the values the uninitialized local ch may hold when
\* read() stores nothing.
StdinBytes == {13, 27, 72, 90}
StdinInputs == {[avail |-> TRUE, byte |-> b] : b \in StdinBytes}
               \cup {[avail |-> FALSE, byte |-> 0]}
StackBytes == {-1, 0, 72}

\* getch() on posix: save the live settings, write the raw ones, read one
\* byte into ch, write the saved settings back, return ch.
posix_getch(cfg, input) ==
    LET old_settings == cfg
        new_settings == RawOf("posix", old_settings)
        during == new_settings
        after == old_settings
    IN [term : {after},
        value : IF input.avail THEN {input.byte} ELSE StackBytes]

(***************************************************************************)
(* The calls on the controller                                             *)
(***************************************************************************)
\* The record kept of a call: its name, its arguments (args: numbers, text:
\* characters), a flag, the values it returned and whether the controller was
\* initialized when it was made.
Call(op, args, text, ok, ret) ==
    [op |-> op, args |-> args, text |-> text, ok |-> ok, ret |-> ret,
     init0 |-> is_initialized]

MayCall == alive /\ ncalls < MaxCalls

Owned == current_window # NULL

\* (y, x) lies in [0, height) x [0, width) of the window
InBounds(win, y, x) == y >= 0 /\ y < win.height /\ x >= 0 /\ x < win.width

Release(h, a) == [b \in DOMAIN h \ {a} |-> h[b]]

\* initscr()
initscr(q) ==
    /\ is_initialized' = TRUE
    /\ echo_mode' = TRUE
    /\ nodelay_mode' = FALSE
    /\ cursor_visible' = TRUE
    /\ LET size == detect_screen_size(q)
       IN /\ nalloc' = nalloc + 1
          /\ heap' = heap @@ (nalloc + 1 :> WINDOW(size.height, size.width, 0, 0))
          /\ current_window' = nalloc + 1
    /\ setup_terminal
    /\ UNCHANGED display

\* endwin without its first line, the return when not initialized.
endwin_unguarded ==
    /\ restore_terminal
    /\ display' = <<>>
    /\ IF current_window # NULL
       THEN /\ heap' = Release(heap, current_window)
            /\ current_window' = NULL
       ELSE UNCHANGED <<heap, current_window>>
    /\ is_initialized' = FALSE
    /\ UNCHANGED <<nalloc, echo_mode, nodelay_mode, cursor_visible, old_termios>>

\* endwin()
endwin ==
    IF ~is_initialized
    THEN UNCHANGED progVars
    ELSE /\ restore_terminal
         /\ display' = <<>>
         /\ IF current_window # NULL
            THEN /\ heap' = Release(heap, current_window)
                 /\ current_window' = NULL
            ELSE UNCHANGED <<heap, current_window>>
         /\ is_initialized' = FALSE
         /\ UNCHANGED <<nalloc, echo_mode, nodelay_mode, cursor_visible, old_termios>>

\* noecho()
noecho ==
    /\ echo_mode' = FALSE
    /\ UNCHANGED <<term, display, heap, nalloc, current_window, is_initialized,
                   nodelay_mode, cursor_visible, old_termios>>

\* keypad(enable)
keypad(enable) ==
    UNCHANGED progVars

\* nodelay(enable)
nodelay(enable) ==
    /\ nodelay_mode' = enable
    /\ UNCHANGED <<term, display, heap, nalloc, current_window, is_initialized,
                   echo_mode, cursor_visible, old_termios>>

\* cbreak()
cbreak ==
    /\ setup_terminal
    /\ UNCHANGED <<display, heap, nalloc, current_window, is_initialized,
                   echo_mode, nodelay_mode, cursor_visible>>

\* curs_set(visibility). On win32 the two cursor calls are given the console
\* input handle, which they reject, so on both platforms only the flag changes.
curs_set(visibility) ==
    /\ cursor_visible' = (visibility > 0)
    /\ UNCHANGED <<term, display, heap, nalloc, current_window, is_initialized,
                   echo_mode, nodelay_mode, old_termios>>

\* What a read through a WINDOW* that was deleted may yield.
StaleDimensions == {<<0, 0>>, <<DEFAULT_HEIGHT, DEFAULT_WIDTH>>, <<-1, 7>>}

\* getmaxyx(win, height, width): the set of results it may store.
getmaxyx(win) ==
    IF win # NULL
    THEN IF win \in DOMAIN heap
         THEN {<<heap[win].height, heap[win].width>>}
         ELSE StaleDimensions
    ELSE {<<0, 0>>}

\* refresh()
refresh ==
    IF ~Owned
    THEN UNCHANGED progVars
    ELSE /\ display' = Render(heap[current_window])
         /\ UNCHANGED <<term, heap, nalloc, current_window, is_initialized,
                        echo_mode, nodelay_mode, cursor_visible, old_termios>>

Start(q) ==
    /\ MayCall
    /\ initscr(q)
    /\ handle' = current_window'
    /\ cfgAtStart' = term
    /\ lastCall' = Call("start", <<>>, <<>>, q.ok, <<q.rows, q.cols>>)
    /\ ncalls' = ncalls + 1
    /\ UNCHANGED <<platform, alive>>

Stop ==
    /\ MayCall
    /\ endwin
    /\ lastCall' = Call("stop", <<>>, <<>>, TRUE, <<>>)
    /\ ncalls' = ncalls + 1
    /\ UNCHANGED <<platform, alive, handle, cfgAtStart>>

\* ~TerminalUI()
Destroy ==
    /\ alive
    /\ IF is_initialized THEN endwin ELSE UNCHANGED progVars
    /\ alive' = FALSE
    /\ lastCall' = Call("destroy", <<>>, <<>>, TRUE, <<>>)
    /\ UNCHANGED <<platform, handle, cfgAtStart, ncalls>>

NoEcho ==
    /\ MayCall
    /\ noecho
    /\ lastCall' = Call("noecho", <<>>, <<>>, TRUE, <<>>)
    /\ ncalls' = ncalls + 1
    /\ UNCHANGED <<platform, alive, handle, cfgAtStart>>

Keypad(enable) ==
    /\ MayCall
    /\ keypad(enable)
    /\ lastCall' = Call("keypad", <<>>, <<>>, TRUE, <<>>)
    /\ ncalls' = ncalls + 1
    /\ UNCHANGED <<platform, alive, handle, cfgAtStart>>

NoDelay(enable) ==
    /\ MayCall
    /\ nodelay(enable)
    /\ lastCall' = Call("nodelay", <<>>, <<>>, TRUE, <<>>)
    /\ ncalls' = ncalls + 1
    /\ UNCHANGED <<platform, alive, handle, cfgAtStart>>

CBreak ==
    /\ MayCall
    /\ cbreak
    /\ lastCall' = Call("cbreak", <<>>, <<>>, TRUE, <<>>)
    /\ ncalls' = ncalls + 1
    /\ UNCHANGED <<platform, alive, handle, cfgAtStart>>

CursSet(visibility) ==
    /\ MayCall
    /\ curs_set(visibility)
    /\ lastCall' = Call("curs_set", <<>>, <<>>, TRUE, <<>>)
    /\ ncalls' = ncalls + 1
    /\ UNCHANGED <<platform, alive, handle, cfgAtStart>>

GetMaxYX(win) ==
    /\ MayCall
    /\ \E dims \in getmaxyx(win) :
          lastCall' = Call("getmaxyx", <<>>, <<>>, win = NULL \/ win \in DOMAIN heap, dims)
    /\ ncalls' = ncalls + 1
    /\ UNCHANGED progVars
    /\ UNCHANGED <<platform, alive, handle, cfgAtStart>>

Plot(y, x, ch) ==
    /\ MayCall
    /\ IF ~Owned
       THEN UNCHANGED heap
       ELSE heap' = [heap EXCEPT ![current_window] = mvaddch(@, y, x, ch)]
    /\ lastCall' = Call("plot", <<y, x>>, <<ch>>, TRUE, <<>>)
    /\ ncalls' = ncalls + 1
    /\ UNCHANGED <<term, display, nalloc, current_window, is_initialized,
                   echo_mode, nodelay_mode, cursor_visible, old_termios>>
    /\ UNCHANGED <<platform, alive, handle, cfgAtStart>>

PrintAt(y, x, in) ==
    /\ MayCall
    /\ IF ~Owned
       THEN UNCHANGED heap
       ELSE heap' = [heap EXCEPT ![current_window] = mvprintw(@, y, x, in.format, in.args)]
    /\ lastCall' = Call("print_at", <<y, x>>, Formatted(in.format, in.args), TRUE, <<>>)
    /\ ncalls' = ncalls + 1
    /\ UNCHANGED <<term, display, nalloc, current_window, is_initialized,
                   echo_mode, nodelay_mode, cursor_visible, old_termios>>
    /\ UNCHANGED <<platform, alive, handle, cfgAtStart>>

Refresh ==
    /\ MayCall
    /\ refresh
    /\ lastCall' = Call("flush", <<>>, <<>>, TRUE, <<>>)
    /\ ncalls' = ncalls + 1
    /\ UNCHANGED <<platform, alive, handle, cfgAtStart>>

GetchPosix(input) ==
    /\ MayCall
    /\ platform = "posix"
    /\ \E r \in posix_getch(term, input) :
          /\ term' = r.term
          /\ lastCall' = Call("read_key", <<>>, <<>>, input.avail, <<r.value>>)
    /\ ncalls' = ncalls + 1
    /\ UNCHANGED <<display, heap, nalloc, current_window, is_initialized,
                   echo_mode, nodelay_mode, cursor_visible, old_termios>>
    /\ UNCHANGED <<platform, alive, handle, cfgAtStart>>

GetchWindows(events) ==
    /\ MayCall
    /\ platform = "win32"
    /\ windows_getch(events).returned
    /\ lastCall' = Call("read_key", <<>>, <<>>, TRUE, <<windows_getch(events).value>>)
    /\ ncalls' = ncalls + 1
    /\ UNCHANGED progVars
    /\ UNCHANGED <<platform, alive, handle, cfgAtStart>>

Init ==
    /\ platform \in Platforms
    /\ term \in InitialConfigs(platform)
    /\ display = PriorContent
    /\ heap = <<>>
    /\ nalloc = 0
    /\ alive = TRUE
    /\ current_window = NULL
    /\ is_initialized = FALSE
    /\ echo_mode = TRUE
    /\ nodelay_mode = FALSE
    /\ cursor_visible = TRUE
    /\ old_termios = Indeterminate
    /\ handle = NULL
    /\ cfgAtStart = Indeterminate
    /\ lastCall = [op |-> "construct", args |-> <<>>, text |-> <<>>, ok |-> TRUE,
                   ret |-> <<>>, init0 |-> FALSE]
    /\ ncalls = 0

Next ==
    \/ \E q \in QueryResults(platform) : Start(q)
    \/ Stop
    \/ Destroy
    \/ NoEcho
    \/ \E b \in BOOLEAN : Keypad(b)
    \/ \E b \in BOOLEAN : NoDelay(b)
    \/ CBreak
    \/ \E v \in {0, 1} : CursSet(v)
    \/ \E win \in {NULL, handle, current_window} : GetMaxYX(win)
    \/ \E p \in Points, ch \in PlotChars : Plot(p[1], p[2], ch)
    \/ \E p \in Points, in \in PrintInputs : PrintAt(p[1], p[2], in)
    \/ Refresh
    \/ \E input \in StdinInputs : GetchPosix(input)
    \/ \E events \in EventRuns : GetchWindows(events)

Spec == Init /\ [][Next]_vars

(***************************************************************************)
(* Properties                                                              *)
(***************************************************************************)
ReservedKeys == {KEY_UP, KEY_DOWN, KEY_LEFT, KEY_RIGHT, KEY_ENTER, KEY_BACKSPACE, KEY_ESC}
Printable == 32..126
ModeCalls == {"noecho", "keypad", "nodelay", "cbreak", "curs_set"}
Screen == heap[current_window]

\* C1 (restore symmetry over whole cycles): while the controller is
\* initialized the saved snapshot old_termios is the terminal configuration
\* that was live just before initscr changed it, and right after an endwin that
\* acted (or the destructor's) the live configuration is that configuration.
C1_RestoreSymmetry ==
    /\ is_initialized => old_termios = cfgAtStart
    /\ (lastCall.op \in {"stop", "destroy"} /\ lastCall.init0) => term = cfgAtStart

\* C2 (key-code disjointness): the seven reserved key codes are pairwise
\* distinct and none lies in the printable range 32..126: a value getch
\* returns for a key it has read that is a reserved key code is not the code
\* of a printable character.
C2_KeyCodeDisjoint ==
    (lastCall.op = "read_key" /\ lastCall.ok /\ lastCall.ret[1] \in ReservedKeys) =>
        /\ Cardinality(ReservedKeys) = 7
        /\ lastCall.ret[1] \notin Printable

\* C3 (bounds safety of plot): a call mvaddch(y, x, ch) with (y, x) outside
\* [0, height) x [0, width), or with no window owned, leaves every window's
\* buffer and geometry and the ownership unchanged; with no window owned it
\* changes nothing of the program's state.
C3_PlotBoundsSafety ==
    [][ ( /\ lastCall'.op = "plot"
          /\ ~(Owned /\ InBounds(Screen, lastCall'.args[1], lastCall'.args[2])) )
        => /\ heap' = heap
           /\ current_window' = current_window
           /\ (~Owned => UNCHANGED progVars) ]_vars

\* C3 witness: a plot at a negative row of an owned window has been made.
C3_Witness ==
    /\ lastCall.op = "plot" /\ Owned
    /\ lastCall.args[1] < 0
    /\ InBounds(Screen, 1, lastCall.args[2])

\* The frame refresh must emit for a window: height rows of width characters,
\* in row order, each followed by a line break, the character at column x of
\* row y being the buffer's cell (y, x).
IsFrameOf(out, win) ==
    /\ Len(out) = win.height * (win.width + 1)
    /\ \A r \in 1..win.height :
          /\ \A c \in 1..win.width :
                out[(r - 1) * (win.width + 1) + c] = win.buffer[r][c]
          /\ out[r * (win.width + 1)] = LINE_BREAK

\* The window win with s[i] in cell (y, x + i) of its buffer for every
\* i < n, and every other cell and the geometry as in win.
WithText(win, y, x, s, n) ==
    [win EXCEPT !.buffer =
        [r \in 1..win.height |->
            [c \in 1..win.width |->
                IF r = y + 1 /\ c - 1 >= x /\ c - 1 < x + n
                THEN s[c - x]
                ELSE win.buffer[r][c]]]]

\* C4 (write/read consistency): with a window owned, mvaddch(y, x, ch) at an
\* in-bounds (y, x) makes cell (y, x) equal ch and changes no other cell, no
\* geometry and no other window; refresh emits exactly the frame of the buffer
\* and does not modify the buffer.
C4_WriteReadConsistency ==
    [][ /\ ( /\ lastCall'.op = "plot"
             /\ Owned /\ InBounds(Screen, lastCall'.args[1], lastCall'.args[2]) )
           => /\ current_window' = current_window
              /\ heap' = [heap EXCEPT ![current_window] =
                            WithText(Screen, lastCall'.args[1], lastCall'.args[2],
                                     lastCall'.text, 1)]
              /\ heap'[current_window].buffer[lastCall'.args[1] + 1][lastCall'.args[2] + 1]
                    = lastCall'.text[1]
        /\ (lastCall'.op = "flush" /\ Owned)
           => /\ IsFrameOf(display', Screen)
              /\ heap' = heap ]_vars

\* C4 witness: a refresh after a plot shows the plotted character (which only
\* mvaddch writes) at the place of its cell.
C4_Witness ==
    /\ lastCall.op = "flush" /\ Owned
    /\ \E r \in 1..Screen.height, c \in 1..Screen.width :
          /\ Screen.buffer[r][c] \in PlotChars
          /\ display[(r - 1) * (Screen.width + 1) + c] = Screen.buffer[r][c]

\* C5 (truncation at the right edge): with a window owned and (y, x) in
\* bounds, mvprintw(y, x, ...) with formatted string s writes exactly
\* min(len(s), width - x) characters, s[i] into cell (y, x + i), and changes no
\* other cell; with (y, x) out of bounds or no window owned it writes nothing.
C5_PrintTruncation ==
    [][ lastCall'.op = "print_at"
        => LET y == lastCall'.args[1]
               x == lastCall'.args[2]
               s == lastCall'.text
           IN IF Owned /\ InBounds(Screen, y, x)
              THEN /\ current_window' = current_window
                   /\ heap' = [heap EXCEPT ![current_window] =
                                 WithText(Screen, y, x, s, Min(Len(s), Screen.width - x))]
              ELSE heap' = heap ]_vars

\* C5 witness: "HELLO" printed at column width - 2 of a window has left "HE" in
\* the last two columns of the row.
C5_Witness ==
    /\ lastCall.op = "print_at" /\ Owned
    /\ lastCall.text = HELLO
    /\ InBounds(Screen, lastCall.args[1], lastCall.args[2])
    /\ lastCall.args[2] = Screen.width - 2
    /\ Screen.buffer[lastCall.args[1] + 1][Screen.width - 1] = "H"
    /\ Screen.buffer[lastCall.args[1] + 1][Screen.width] = "E"

\* C6 (idempotent stop): endwin called while the controller is not
\* initialized changes nothing of the program's state: terminal
\* configuration, display, flags, saved snapshot, windows and ownership.
C6_IdempotentStop ==
    [][ (lastCall'.op = "stop" /\ ~is_initialized) => UNCHANGED progVars ]_vars

\* C6 witness: an endwin made on a controller that an earlier endwin, ending
\* a cycle, had left uninitialized.
C6_Witness ==
    /\ lastCall.op = "stop" /\ ~lastCall.init0
    /\ nalloc >= 1

\* C7 (geometry fallback): right after initscr the window has height >= 1 and
\* width >= 1 and every row has exactly width cells, all spaces; an axis for
\* which the size query failed or gave a non-positive value has the default
\* (height 24, width 80).
C7_GeometryFallback ==
    lastCall.op = "start" =>
        /\ Screen.height >= 1 /\ Screen.width >= 1
        /\ Len(Screen.buffer) = Screen.height
        /\ \A r \in 1..Screen.height :
              /\ Len(Screen.buffer[r]) = Screen.width
              /\ \A c \in 1..Screen.width : Screen.buffer[r][c] = SPACE
        /\ (~lastCall.ok \/ lastCall.ret[1] <= 0) => Screen.height = DEFAULT_HEIGHT
        /\ (~lastCall.ok \/ lastCall.ret[2] <= 0) => Screen.width = DEFAULT_WIDTH

\* C8 (mode configuration only between start and stop): a call of noecho,
\* keypad, nodelay, cbreak or curs_set made while the controller is not
\* initialized leaves the live terminal configuration, the saved snapshot and
\* the controller flags unchanged.
C8_ModeCallsNeedStart ==
    [][ (lastCall'.op \in ModeCalls /\ ~is_initialized)
          => UNCHANGED <<term, old_termios, ctrlFlags>> ]_vars

\* C9 (single ownership): at most one allocated, unreleased window exists and
\* it is the one the controller owns; the controller owns a window exactly
\* when it is initialized; after endwin or destruction no window remains.
C9_SingleOwnership ==
    /\ Cardinality(DOMAIN heap) <= 1
    /\ Owned => DOMAIN heap = {current_window}
    /\ Owned <=> is_initialized
    /\ ~is_initialized => DOMAIN heap = {}

\* C10 (no access to a released window): a getmaxyx call made while no window
\* is owned reads no released window and returns (0, 0), whichever handle the
\* caller passes.
C10_NoReleasedAccess ==
    (lastCall.op = "getmaxyx" /\ ~Owned) =>
        /\ lastCall.ok
        /\ lastCall.ret = <<0, 0>>

====
